---- MODULE Spec2Model ----
(***************************************************************************)
(* A model of src/src/basic_parser.rs: the recursive-descent primitives    *)
(* (accept_if, Whitespace, maybe_syntax, require_syntax, maybe, require,   *)
(* the Token parse, the Result<T1,T2> alternation, parse_list / Vec<T>,    *)
(* end_of_parse) run as a machine with a call stack over one cursor.       *)
(* One action is one straight-line piece of a function between two calls   *)
(* or two loop heads; accept_if, the only place the cursor moves, is an    *)
(* operator applied inside those actions.                                  *)
(***************************************************************************)
EXTENDS Integers, Sequences, FiniteSets, TLC

(* ------------------------------------------------------------------ *)
(* Bounds of the model                                                 *)
(* ------------------------------------------------------------------ *)

\* longest input over the whole alphabet, in characters
MaxInput == 3
\* longest input over digits, separators and blanks, in characters
MaxLongInput == 5
\* token classes override MAX_LEN with a value of 1..MaxTokenLen
MaxTokenLen == 3
\* list element types override LIMIT with a value of 1..MaxLimit
MaxLimit == 3

(* ------------------------------------------------------------------ *)
(* Characters                                                          *)
(* ------------------------------------------------------------------ *)

\* '\0', the default ESCAPE
NUL == "NUL"
\* the characters of the model: a digit, a letter whose UTF-8 encoding takes
\* two bytes (written "e" here, U+00E9 in an input), a blank, the default
\* separator, a backslash and '\0'
Alphabet == {"1", "e", " ", ",", "\\", NUL}

\* char::is_whitespace, as the set of characters it accepts
is_whitespace == {" "}

\* char::len_utf8: String::len counts bytes
len_utf8(c) == IF c = "e" THEN 2 ELSE 1

RECURSIVE str_len(_)
\* String::len of a text held as a sequence of characters
str_len(s) == IF s = <<>> THEN 0 ELSE len_utf8(Head(s)) + str_len(Tail(s))

\* Option<T>
None == [some |-> FALSE]
Some(v) == [some |-> TRUE, val |-> v]

\* the values the operations return
Char(c) == [tag |-> "char", c |-> c]
Unit == [tag |-> "()"]
WhitespaceVal == [tag |-> "Whitespace"]

(* ------------------------------------------------------------------ *)
(* Trait constants and the token classes a caller supplies             *)
(* ------------------------------------------------------------------ *)

\* Token::MAX_LEN when a class does not override it
DefaultMAX_LEN == 255
\* Many::LIMIT when a type does not override it
DefaultLIMIT == 127
\* Many::SEP
SEP == ","
\* Token::ESCAPE when a class does not override it
DefaultESCAPE == NUL
\* Token::escaped when a class does not override it: fn escaped(_) -> bool { false }
DefaultEscaped == {}

\* A token class: accept and accept_1st and escaped as the sets they accept.
\* Digits overrides nothing (accept_1st is accept, no escaping).
Digits == [name |-> "Digits", accept |-> {"1"}, accept_1st |-> {"1"},
           ESCAPE |-> DefaultESCAPE, escaped |-> DefaultEscaped]
\* Ident overrides accept_1st: a letter first, then letters and digits.
Ident == [name |-> "Ident", accept |-> {"e", "1"}, accept_1st |-> {"e"},
          ESCAPE |-> DefaultESCAPE, escaped |-> DefaultEscaped]
\* Quoted overrides ESCAPE and escaped: a backslash quotes a backslash, a
\* separator or a blank.
Quoted == [name |-> "Quoted", accept |-> {"e"}, accept_1st |-> {"e"},
           ESCAPE |-> "\\", escaped |-> {"\\", ",", " "}]
\* Raw overrides all of them: its first character may be the backslash itself,
\* and its continuation predicate accepts the blank.
Raw == [name |-> "Raw", accept |-> {"1", " "}, accept_1st |-> {"1", "\\"},
        ESCAPE |-> "\\", escaped |-> {"1", "\\"}]

TokenClasses == {Digits, Ident, Quoted, Raw}

\* the parseable types: T (a token class), Result<T1, T2>, Vec<T>
TokenTy(k) == [kind |-> "Token", cls |-> k]
ResultTy(k1, t2) == [kind |-> "Result", t1 |-> k1, t2 |-> t2]
VecTy(t) == [kind |-> "Vec", elem |-> t]

\* a type no frame uses
NoTy == [kind |-> "-"]

\* std::any::type_name::<T>(), shortened
type_name(ty) == IF ty.kind = "Token" THEN ty.cls.name ELSE ty.kind

\* T::IDENT(str), and the other values
IDENT(k, str) == [tag |-> "Token", cls |-> k.name, txt |-> str]
Ok(v) == [tag |-> "Ok", val |-> v]
Err(v) == [tag |-> "Err", val |-> v]
VecVal(elems) == [tag |-> "Vec", items |-> elems]

VARIABLES
    call,     \* the operation the caller invoked, with its type and arguments
    input,    \* the cursor's character sequence when the operation was called
    stream,   \* the cursor: the characters not yet consumed
    stack,    \* the call stack, innermost call first
    ret,      \* the value the last finished call returned
    panic,    \* the panic message, PanicNone while there is none
    MAX_LEN,  \* T::MAX_LEN of the token classes of this run
    LIMIT,    \* T::LIMIT of the list element type of this run
    trace     \* every character consumed so far, with the call site that took it

vars == <<call, input, stream, stack, ret, panic, MAX_LEN, LIMIT, trace>>

PanicNone == [msg |-> "", info |-> <<>>]
Panic(m, i) == [msg |-> m, info |-> i]

(* ------------------------------------------------------------------ *)
(* accept_if, the primitive                                            *)
(* ------------------------------------------------------------------ *)

\* accept_if with the stream.next() of line 17 left out
accept_if_no_advance(predicate, s) ==
    IF s = <<>> THEN [val |-> None, stream |-> s]
    ELSE IF Head(s) \in predicate THEN [val |-> Some(Char(Head(s))), stream |-> s]
    ELSE [val |-> None, stream |-> s]

\* accept_if that takes the character before it asks the predicate
accept_if_eager(predicate, s) ==
    IF s = <<>> THEN [val |-> None, stream |-> s]
    ELSE IF Head(s) \in predicate THEN [val |-> Some(Char(Head(s))), stream |-> Tail(s)]
    ELSE [val |-> None, stream |-> Tail(s)]

\* fn accept_if(predicate, stream) -> Option<char>: the value returned and the
\* cursor afterwards
accept_if(predicate, s) ==
    IF s = <<>> THEN [val |-> None, stream |-> s]
    ELSE IF Head(s) \in predicate THEN [val |-> Some(Char(Head(s))), stream |-> Tail(s)]
    ELSE [val |-> None, stream |-> s]

(* ------------------------------------------------------------------ *)
(* Frames and control                                                  *)
(* ------------------------------------------------------------------ *)

\* A call in progress: the function, the place in it, its type parameter, its
\* arguments (predicate, syntax, max), its locals (str, elems) and the cursor
\* it was entered with.
Frame(fn, pc, ty, pred, syntax, max, at) ==
    [fn |-> fn, pc |-> pc, ty |-> ty, pred |-> pred, syntax |-> syntax,
     max |-> max, str |-> <<>>, elems |-> <<>>, entry |-> at]

WhitespaceParse(at) == Frame("Whitespace::parse", "first", NoTy, {}, "", 0, at)
maybe_syntax(syntax, at) == Frame("maybe_syntax", "accept", NoTy, {}, syntax, 0, at)
require_syntax(syntax, at) == Frame("require_syntax", "call", NoTy, {}, syntax, 0, at)
parse_list(ty, sep_by, max, at) == Frame("parse_list", "first", ty, {}, sep_by, max, at)

\* T::parse(stream) for each kind of T; Vec<T>::parse is parse_list(T::SEP, T::LIMIT, stream)
parse(ty, at) ==
    CASE ty.kind = "Token" -> Frame("Token::parse", "first", ty, {}, "", 0, at)
      [] ty.kind = "Result" -> Frame("Result::parse", "peek", ty, {}, "", 0, at)
      [] ty.kind = "Vec" -> parse_list(ty.elem, SEP, LIMIT, at)

\* require<T>(stream)
require(ty, at) == Frame("require", "call", ty, {}, "", 0, at)

\* maybe<T>(stream) is T::parse(stream)
maybe(ty, at) == parse(ty, at)

Top == Head(stack)
Running(fn, pc) == panic = PanicNone /\ stack # <<>> /\ Top.fn = fn /\ Top.pc = pc

\* the call returns v to its caller
Return(v) == stack' = Tail(stack) /\ ret' = v /\ panic' = panic
\* the call goes on at pc with its locals updated
Goto(f) == stack' = <<f>> \o Tail(stack) /\ ret' = ret /\ panic' = panic
\* the call calls callee and goes on at pc when it returns
Call(callee, pc) ==
    /\ stack' = <<callee, [Top EXCEPT !.pc = pc]>> \o Tail(stack)
    /\ ret' = ret /\ panic' = panic
\* panic!(m)
Abort(m, i) == panic' = Panic(m, i) /\ stack' = stack /\ ret' = ret

\* the cursor and the record of what was consumed after an accept_if at a call site
Took(r, site) ==
    /\ stream' = r.stream
    /\ trace' = IF r.val.some THEN Append(trace, [c |-> r.val.val.c, site |-> site])
                ELSE trace
NoTake == stream' = stream /\ trace' = trace
Config == UNCHANGED <<call, input, MAX_LEN, LIMIT>>

(* ------------------------------------------------------------------ *)
(* What the caller may invoke                                          *)
(* ------------------------------------------------------------------ *)

RECURSIVE SeqsUpTo(_, _)
\* the sequences over S of length at most n
SeqsUpTo(S, n) ==
    IF n = 0 THEN {<<>>}
    ELSE LET shorter == SeqsUpTo(S, n - 1)
         IN shorter \cup {Append(q, x) : q \in {t \in shorter : Len(t) = n - 1}, x \in S}

\* the characters of the longer inputs: lists of digit tokens
ListAlphabet == {"1", SEP, " "}

Inputs == SeqsUpTo(Alphabet, MaxInput) \cup SeqsUpTo(ListAlphabet, MaxLongInput)

\* the grammar types of the run: every token class, every two-way alternation
\* of two token classes, every list of tokens, a list of alternations and an
\* alternation whose second arm is a list
TokenTypes == {TokenTy(k) : k \in TokenClasses}
ResultTypes == {ResultTy(k1, TokenTy(k2)) : k1 \in TokenClasses, k2 \in TokenClasses}
                  \cup {ResultTy(Digits, VecTy(TokenTy(Ident)))}
VecTypes == {VecTy(TokenTy(k)) : k \in TokenClasses}
               \cup {VecTy(ResultTy(Ident, TokenTy(Digits)))}
Types == TokenTypes \cup ResultTypes \cup VecTypes

HasList(ty) == ty.kind = "Vec" \/ (ty.kind = "Result" /\ ty.t2.kind = "Vec")

\* the predicates the caller hands to accept_if, and the syntax characters
Predicates == {is_whitespace, {SEP}, {"1", "e"}, {}}
Syntax == {SEP, "1"}

CallOf(op, ty, pred, syntax) == [op |-> op, ty |-> ty, pred |-> pred, syntax |-> syntax]

Calls ==
    {CallOf("accept_if", NoTy, p, "") : p \in Predicates}
    \cup {CallOf(op, NoTy, {}, "") : op \in {"Whitespace::parse", "end_of_parse"}}
    \cup {CallOf(op, NoTy, {}, c) : op \in {"maybe_syntax", "require_syntax"}, c \in Syntax}
    \cup {CallOf("maybe", ty, {}, "") : ty \in Types}
    \cup {CallOf("require", ty, {}, "") : ty \in TokenTypes}

\* the frame of the caller's call
StartFrame(c, at) ==
    CASE c.op = "accept_if" -> Frame("accept_if", "body", NoTy, c.pred, "", 0, at)
      [] c.op = "Whitespace::parse" -> WhitespaceParse(at)
      [] c.op = "end_of_parse" -> Frame("end_of_parse", "body", NoTy, {}, "", 0, at)
      [] c.op = "maybe_syntax" -> maybe_syntax(c.syntax, at)
      [] c.op = "require_syntax" -> require_syntax(c.syntax, at)
      [] c.op = "maybe" -> maybe(c.ty, at)
      [] c.op = "require" -> require(c.ty, at)

\* The caller's types fix MAX_LEN and LIMIT: a token class on its own takes
\* every MAX_LEN of 1..MaxTokenLen, inside an alternation or a list it takes
\* MaxTokenLen; a list takes every LIMIT of 1..MaxLimit; a call that uses no
\* token class or no list keeps the trait's default.
Init ==
    /\ call \in Calls
    /\ input \in Inputs
    /\ stream = input
    /\ MAX_LEN \in (IF call.ty = NoTy THEN {DefaultMAX_LEN}
                    ELSE IF call.ty.kind = "Token" THEN 1..MaxTokenLen
                    ELSE {MaxTokenLen})
    /\ LIMIT \in (IF call.ty # NoTy /\ HasList(call.ty) THEN 1..MaxLimit ELSE {DefaultLIMIT})
    /\ stack = <<StartFrame(call, input)>>
    /\ ret = None
    /\ panic = PanicNone
    /\ trace = <<>>

(* ------------------------------------------------------------------ *)
(* The operations                                                      *)
(* ------------------------------------------------------------------ *)

\* accept_if called by the caller itself (lines 11-22)
AcceptIf ==
    /\ Running("accept_if", "body")
    /\ LET r == accept_if(Top.pred, stream)
       IN Took(r, "pred") /\ Return(r.val)
    /\ Config

\* Whitespace::parse, line 30: eat_space()?
WhitespaceFirst ==
    /\ Running("Whitespace::parse", "first")
    /\ LET r == accept_if(is_whitespace, stream)
       IN /\ Took(r, "ws")
          /\ IF r.val.some THEN Goto([Top EXCEPT !.pc = "loop"]) ELSE Return(None)
    /\ Config

\* Whitespace::parse, lines 31-32: while let Some(_) = eat_space() {} Some(Whitespace {})
WhitespaceLoop ==
    /\ Running("Whitespace::parse", "loop")
    /\ LET r == accept_if(is_whitespace, stream)
       IN /\ Took(r, "ws")
          /\ IF r.val.some THEN Goto(Top) ELSE Return(Some(WhitespaceVal))
    /\ Config

\* maybe_syntax, lines 38-39: accept_if(|c| c == syntax, stream)?; Whitespace::parse(stream)
MaybeSyntaxAccept ==
    /\ Running("maybe_syntax", "accept")
    /\ LET r == accept_if({Top.syntax}, stream)
       IN /\ Took(r, "syntax")
          /\ IF r.val.some THEN Call(WhitespaceParse(r.stream), "done") ELSE Return(None)
    /\ Config

\* maybe_syntax, line 40: Some(())
MaybeSyntaxDone ==
    /\ Running("maybe_syntax", "done")
    /\ Return(Some(Unit)) /\ NoTake /\ Config

\* require_syntax, line 44: maybe_syntax(syntax, stream)
RequireSyntaxCall ==
    /\ Running("require_syntax", "call")
    /\ Call(maybe_syntax(Top.syntax, stream), "check") /\ NoTake /\ Config

\* require_syntax, lines 44-51: .is_none() panics with what stream.peek() shows
RequireSyntaxCheck ==
    /\ Running("require_syntax", "check")
    /\ IF ret.some THEN Return(Unit)
       ELSE Abort("parse error: expecting but found",
                  <<Top.syntax, IF stream = <<>> THEN "EOL" ELSE Head(stream)>>)
    /\ NoTake /\ Config

\* require, line 59: maybe(stream)
RequireCall ==
    /\ Running("require", "call")
    /\ Call(maybe(Top.ty, stream), "check") /\ NoTake /\ Config

\* require, lines 59-62: let Some(result) = ... else { panic!(...) }; result
RequireCheck ==
    /\ Running("require", "check")
    /\ IF ret.some THEN Return(ret.val)
       ELSE Abort("parse error: expected", <<type_name(Top.ty)>>)
    /\ NoTake /\ Config

\* the Token parse, line 82: accept_if(T::accept_1st, stream)?.to_string()
TokenFirst ==
    /\ Running("Token::parse", "first")
    /\ LET r == accept_if(Top.ty.cls.accept_1st, stream)
       IN /\ Took(r, "first")
          /\ IF r.val.some
             THEN Goto([Top EXCEPT !.pc = "loop", !.str = <<r.val.val.c>>])
             ELSE Return(None)
    /\ Config

\* the Token parse, lines 84-86 and 92-94: the continuation predicate, then the
\* escape trigger, then break
TokenLoop ==
    /\ Running("Token::parse", "loop")
    /\ LET k == Top.ty.cls
           r == accept_if(k.accept, stream)
           e == accept_if({k.ESCAPE}, stream)
       IN IF r.val.some
          THEN /\ Took(r, "accept")
               /\ Goto([Top EXCEPT !.pc = "margin", !.str = Append(@, r.val.val.c)])
          ELSE IF e.val.some
          THEN Took(e, "escape") /\ Goto([Top EXCEPT !.pc = "escaped"])
          ELSE NoTake /\ Goto([Top EXCEPT !.pc = "whitespace"])
    /\ Config

\* the escaped character appended together with its trigger
TokenEscapedKeepsTrigger ==
    /\ Running("Token::parse", "escaped")
    /\ LET k == Top.ty.cls
           r == accept_if(k.escaped, stream)
       IN /\ Took(r, "escaped")
          /\ IF r.val.some
             THEN Goto([Top EXCEPT !.pc = "margin",
                                   !.str = @ \o <<k.ESCAPE, r.val.val.c>>])
             ELSE Abort("tokenizer: illegal escape sequence", <<>>)
    /\ Config

\* the Token parse, lines 87-91: after the trigger, accept_if(T::escaped, stream)
\* or panic
TokenEscaped ==
    /\ Running("Token::parse", "escaped")
    /\ LET r == accept_if(Top.ty.cls.escaped, stream)
       IN /\ Took(r, "escaped")
          /\ IF r.val.some
             THEN Goto([Top EXCEPT !.pc = "margin", !.str = Append(@, r.val.val.c)])
             ELSE Abort("tokenizer: illegal escape sequence", <<>>)
    /\ Config

\* the margin test with > for >=
TokenMarginOffByOne ==
    /\ Running("Token::parse", "margin")
    /\ IF str_len(Top.str) > MAX_LEN
       THEN Abort("tokenizer: exceeded safety margin", <<>>)
       ELSE Goto([Top EXCEPT !.pc = "loop"])
    /\ NoTake /\ Config

\* the Token parse, lines 95-97: if str.len() >= T::MAX_LEN { panic!(...) }
TokenMargin ==
    /\ Running("Token::parse", "margin")
    /\ IF str_len(Top.str) >= MAX_LEN
       THEN Abort("tokenizer: exceeded safety margin", <<>>)
       ELSE Goto([Top EXCEPT !.pc = "loop"])
    /\ NoTake /\ Config

\* the Token parse returning without the Whitespace::parse of line 99
TokenWhitespaceSkipped ==
    /\ Running("Token::parse", "whitespace")
    /\ Goto([Top EXCEPT !.pc = "ident"]) /\ NoTake /\ Config

\* the Token parse, line 99: Whitespace::parse(stream)
TokenWhitespace ==
    /\ Running("Token::parse", "whitespace")
    /\ Call(WhitespaceParse(stream), "ident") /\ NoTake /\ Config

\* the Token parse, line 100: Some(T::IDENT(str))
TokenIdent ==
    /\ Running("Token::parse", "ident")
    /\ Return(Some(IDENT(Top.ty.cls, Top.str))) /\ NoTake /\ Config

\* Result<T1,T2>::parse, lines 107-112: peek, then T1::parse if T1::accept(c),
\* T2::parse otherwise
ResultPeek ==
    /\ Running("Result::parse", "peek")
    /\ IF stream = <<>> THEN Return(None)
       ELSE IF Head(stream) \in Top.ty.t1.accept
       THEN Call(parse(TokenTy(Top.ty.t1), stream), "map_ok")
       ELSE Call(parse(Top.ty.t2, stream), "map_err")
    /\ NoTake /\ Config

\* Result<T1,T2>::parse, line 109: .map(Ok)
ResultMapOk ==
    /\ Running("Result::parse", "map_ok")
    /\ Return(IF ret.some THEN Some(Ok(ret.val)) ELSE None) /\ NoTake /\ Config

\* Result<T1,T2>::parse, line 111: .map(Err)
ResultMapErr ==
    /\ Running("Result::parse", "map_err")
    /\ Return(IF ret.some THEN Some(Err(ret.val)) ELSE None) /\ NoTake /\ Config

\* parse_list, lines 121-122: maybe(stream)
ListFirst ==
    /\ Running("parse_list", "first")
    /\ Call(maybe(Top.ty, stream), "first_ret") /\ NoTake /\ Config

\* the first element taken as require takes it: absence is fatal
ListFirstRetRequired ==
    /\ Running("parse_list", "first_ret")
    /\ IF ret.some THEN Goto([Top EXCEPT !.pc = "sep", !.elems = <<ret.val>>])
       ELSE Abort("parse error: expected", <<type_name(Top.ty)>>)
    /\ NoTake /\ Config

\* parse_list, line 122: elems.push(...?)
ListFirstRet ==
    /\ Running("parse_list", "first_ret")
    /\ IF ret.some THEN Goto([Top EXCEPT !.pc = "sep", !.elems = <<ret.val>>])
       ELSE Return(None)
    /\ NoTake /\ Config

\* parse_list, line 123: maybe_syntax(sep_by, stream)
ListSep ==
    /\ Running("parse_list", "sep")
    /\ Call(maybe_syntax(Top.syntax, stream), "sep_ret") /\ NoTake /\ Config

\* the list returned right after a separator
ListSepRetTrailing ==
    /\ Running("parse_list", "sep_ret")
    /\ Return(Some(VecVal(Top.elems))) /\ NoTake /\ Config

\* the limit test with > for >=
ListSepRetOffByOne ==
    /\ Running("parse_list", "sep_ret")
    /\ IF ~ret.some THEN Return(Some(VecVal(Top.elems)))
       ELSE IF Len(Top.elems) > Top.max
       THEN Abort("parse_list: parsing multiple items: safety margin exceeded", <<>>)
       ELSE Call(require(Top.ty, stream), "push")
    /\ NoTake /\ Config

\* parse_list, lines 123-127 and 129: .is_some() enters the body, the limit
\* test, then require(stream); otherwise return Some(elems)
ListSepRet ==
    /\ Running("parse_list", "sep_ret")
    /\ IF ~ret.some THEN Return(Some(VecVal(Top.elems)))
       ELSE IF Len(Top.elems) >= Top.max
       THEN Abort("parse_list: parsing multiple items: safety margin exceeded", <<>>)
       ELSE Call(require(Top.ty, stream), "push")
    /\ NoTake /\ Config

\* parse_list, line 127: elems.push(...)
ListPush ==
    /\ Running("parse_list", "push")
    /\ Goto([Top EXCEPT !.pc = "sep", !.elems = Append(@, ret)])
    /\ NoTake /\ Config

\* end_of_parse, lines 144-149
EndOfParse ==
    /\ Running("end_of_parse", "body")
    /\ Return(IF stream = <<>> THEN Some(Unit) ELSE None) /\ NoTake /\ Config

Next ==
    \/ AcceptIf
    \/ WhitespaceFirst \/ WhitespaceLoop
    \/ MaybeSyntaxAccept \/ MaybeSyntaxDone
    \/ RequireSyntaxCall \/ RequireSyntaxCheck
    \/ RequireCall \/ RequireCheck
    \/ TokenFirst \/ TokenLoop \/ TokenEscaped \/ TokenMargin
    \/ TokenWhitespace \/ TokenIdent
    \/ ResultPeek \/ ResultMapOk \/ ResultMapErr
    \/ ListFirst \/ ListFirstRet \/ ListSep \/ ListSepRet \/ ListPush
    \/ EndOfParse

Spec == Init /\ [][Next]_vars

\* the operation has returned to the caller
Done == stack = <<>> /\ panic = PanicNone
\* the operation has ended by panic!
Aborted == panic # PanicNone

\* the operation ends: it is never left waiting between two of its steps
LiveSpec == Spec /\ WF_vars(Next)

(* ------------------------------------------------------------------ *)
(* Vocabulary of the properties                                        *)
(* ------------------------------------------------------------------ *)

MsgEscape == "tokenizer: illegal escape sequence"
MsgMargin == "tokenizer: exceeded safety margin"
MsgLimit == "parse_list: parsing multiple items: safety margin exceeded"
MsgExpected == "parse error: expected"

\* the length of the longest prefix of s whose characters all satisfy P
RECURSIVE RunLen(_, _)
RunLen(P, s) == IF s = <<>> \/ Head(s) \notin P THEN 0 ELSE 1 + RunLen(P, Tail(s))

\* the length of the longest prefix of s that is a text of class k without
\* escapes: accept_1st for the first character, accept for the later ones
MunchLen(k, s) ==
    IF s = <<>> \/ Head(s) \notin k.accept_1st THEN 0 ELSE 1 + RunLen(k.accept, Tail(s))

Drop(s, n) == SubSeq(s, n + 1, Len(s))

\* a class that keeps the default ESCAPE and the default escaped
NoEscaping(k) == k.ESCAPE = DefaultESCAPE /\ k.escaped = DefaultEscaped

\* what the call f has consumed so far, its callees' part included
FrameTrace(f) == Drop(trace, Len(trace) - (Len(f.entry) - Len(stream)))

\* the characters of a piece of the trace
RECURSIVE Chars(_)
Chars(tr) == IF tr = <<>> THEN <<>> ELSE <<Head(tr).c>> \o Chars(Tail(tr))

IsTextSite(e) == e.site \in {"first", "accept", "escaped"}

\* a Token parse is about to return its text: the whitespace is skipped
TokenReturning == panic = PanicNone /\ stack # <<>> /\ Top.fn = "Token::parse" /\ Top.pc = "ident"

(* ------------------------------------------------------------------ *)
(* C1                                                                  *)
(* ------------------------------------------------------------------ *)

\* C1: whenever a call returns None (accept_if, Whitespace::parse,
\* maybe_syntax, maybe, the Token parse, the Result parse, parse_list / the
\* Vec parse, at any depth), the cursor is what it was when that call was entered.
C1_NoneConsumesNothing ==
    [][(stack # <<>> /\ stack' = Tail(stack) /\ ret' = None) => stream' = Top.entry]_vars

\* an alternation whose first class accepts the next character with accept but
\* not with accept_1st has returned None on a non-empty cursor, untouched
C1_Witness ==
    /\ Done /\ call.op = "maybe" /\ call.ty.kind = "Result"
    /\ ret = None /\ input # <<>> /\ stream = input
    /\ Head(input) \in call.ty.t1.accept

(* ------------------------------------------------------------------ *)
(* C2                                                                  *)
(* ------------------------------------------------------------------ *)

\* C2 as stated: a call to maybe::<T> never ends by the fatal path, whatever T
\* and the input are.
C2_MaybeNeverAborts == call.op = "maybe" => panic = PanicNone

\* C2, amended: maybe adds no fatal path of its own. A call to maybe::<T> that
\* aborts does so inside T::parse: in the tokenizer (illegal escape sequence,
\* exceeded safety margin), at parse_list's limit, or in the require of the
\* element that must follow a consumed separator. Absence of T at the cursor
\* is not fatal: no "expected" panic is raised by the maybe call itself.
C2_MaybeAbortsOnlyInsideParse ==
    call.op = "maybe" =>
        /\ panic.msg \in {"", MsgEscape, MsgMargin, MsgLimit, MsgExpected}
        /\ panic.msg \in {MsgEscape, MsgMargin} => Top.fn = "Token::parse"
        /\ panic.msg = MsgLimit => Top.fn = "parse_list" /\ Top.pc = "sep_ret"
        /\ panic.msg = MsgExpected =>
              /\ Len(stack) >= 2
              /\ stack[1].fn = "require" /\ stack[2].fn = "parse_list"
              /\ stack[2].pc = "push" /\ stack[2].elems # <<>>
        /\ (Done /\ call.ty.kind = "Token"
               /\ (input = <<>> \/ Head(input) \notin call.ty.cls.accept_1st)) => ret = None

\* maybe::<Vec<T>> has aborted in the require that follows a separator
C2_Witness ==
    /\ call.op = "maybe" /\ call.ty.kind = "Vec"
    /\ panic.msg = MsgExpected /\ stack[1].fn = "require"

(* ------------------------------------------------------------------ *)
(* C3                                                                  *)
(* ------------------------------------------------------------------ *)

\* the text and the cursor of a Token parse about to return, for a class
\* without escaping, against the longest prefix of the cursor it was entered with
MunchText(f) ==
    LET n == MunchLen(f.ty.cls, f.entry)
        rest == Drop(f.entry, n)
    IN /\ n >= 1
       /\ f.str = SubSeq(f.entry, 1, n)
       /\ stream = Drop(rest, RunLen(is_whitespace, rest))

\* whether whitespace followed the text of the Token parse f
SkippedWhitespace(f) == RunLen(is_whitespace, Drop(f.entry, Len(f.str))) > 0

\* C3 as stated: the token text is the longest accept_1st/accept prefix, the
\* cursor is left after it and the whitespace that follows it, and the next
\* character, if any, neither satisfies accept nor is whitespace.
C3_MaximalMunchNextRejected ==
    (TokenReturning /\ NoEscaping(Top.ty.cls)) =>
        /\ MunchText(Top)
        /\ stream # <<>> =>
              Head(stream) \notin Top.ty.cls.accept /\ Head(stream) \notin is_whitespace

\* C3, amended: the token text is the longest accept_1st/accept prefix and the
\* cursor is left after it and the whitespace that follows it; the next
\* character, if any, is not whitespace, and it does not satisfy accept when
\* no whitespace was skipped (after skipped whitespace it may: "1 1").
C3_MaximalMunch ==
    (TokenReturning /\ NoEscaping(Top.ty.cls)) =>
        /\ MunchText(Top)
        /\ stream # <<>> =>
              /\ Head(stream) \notin is_whitespace
              /\ ~SkippedWhitespace(Top) => Head(stream) \notin Top.ty.cls.accept

\* a text of two characters, the whitespace after it skipped, and a character
\* left that satisfies accept
C3_Witness ==
    /\ TokenReturning /\ NoEscaping(Top.ty.cls) /\ Len(Top.str) = 2
    /\ SkippedWhitespace(Top) /\ stream # <<>> /\ Head(stream) \in Top.ty.cls.accept

(* ------------------------------------------------------------------ *)
(* C4                                                                  *)
(* ------------------------------------------------------------------ *)

\* the characters a successful parse of ty can start with
FirstSet(ty) ==
    CASE ty.kind = "Token" -> ty.cls.accept_1st
      [] ty.kind = "Vec" -> ty.elem.cls.accept_1st
      [] OTHER -> {}

\* C4: Result<T1,T2>::parse on next character c returns Ok (T1's parse) when
\* T1::accept_1st accepts c; otherwise it returns what T2::parse returns, as
\* Err, and None when T2 rejects; on an empty cursor it returns None.
C4_DispatchOnFirstCharPredicate ==
    (Done /\ call.op = "maybe" /\ call.ty.kind = "Result") =>
        IF input = <<>> THEN ret = None
        ELSE IF Head(input) \in call.ty.t1.accept_1st
        THEN ret.some /\ ret.val.tag = "Ok"
        ELSE IF Head(input) \in FirstSet(call.ty.t2)
        THEN ret.some /\ ret.val.tag = "Err"
        ELSE ret = None

(* ------------------------------------------------------------------ *)
(* C5                                                                  *)
(* ------------------------------------------------------------------ *)

\* the list a finished maybe::<Vec<T>> or maybe::<Result<T1, Vec<T>>> returned
ReturnedList == IF ret.val.tag = "Vec" THEN ret.val.items ELSE ret.val.val.items
ListReturned ==
    /\ Done /\ call.op = "maybe" /\ ret.some
    /\ \/ call.ty.kind = "Vec"
       \/ call.ty.kind = "Result" /\ ret.val.tag = "Err" /\ call.ty.t2.kind = "Vec"

\* the text of an element: a token, or a token as Ok or Err
TextOf(v) == IF v.tag \in {"Ok", "Err"} THEN v.val.txt ELSE v.txt

\* the separators consumed
Separators(tr) == SelectSeq(tr, LAMBDA e : e.site = "syntax")

\* the texts read off the consumed characters, one per stretch between two
\* separators, in the order of the input
RECURSIVE TextsOf(_, _)
TextsOf(tr, cur) ==
    IF tr = <<>> THEN <<cur>>
    ELSE IF Head(tr).site = "syntax" THEN <<cur>> \o TextsOf(Tail(tr), <<>>)
    ELSE IF IsTextSite(Head(tr)) THEN TextsOf(Tail(tr), Append(cur, Head(tr).c))
    ELSE TextsOf(Tail(tr), cur)

\* C5: a list never ends on a separator. While parse_list runs, it holds one
\* element more than separators consumed except between a consumed separator
\* and the element required after it (which is appended, or the parse aborts);
\* a list that is returned is non-empty, holds exactly one element more than
\* separators consumed, and its elements are the texts of the input in order.
C5_ListNeverEndsOnSeparator ==
    /\ (stack # <<>> /\ Top.fn = "parse_list") =>
          LET seps == Len(Separators(FrameTrace(Top)))
          IN CASE Top.pc = "first" -> Top.elems = <<>> /\ seps = 0
               [] Top.pc = "first_ret" -> Top.elems = <<>> /\ seps = 0
               [] Top.pc = "sep" -> Len(Top.elems) = seps + 1
               [] Top.pc = "sep_ret" -> Len(Top.elems) = seps + (IF ret.some THEN 0 ELSE 1)
               [] Top.pc = "push" -> Len(Top.elems) = seps
    /\ ListReturned =>
          /\ ReturnedList # <<>>
          /\ Len(ReturnedList) = Len(Separators(trace)) + 1
          /\ [i \in 1..Len(ReturnedList) |-> TextOf(ReturnedList[i])] = TextsOf(trace, <<>>)

\* a list of three elements has been returned, two separators consumed
C5_Witness == ListReturned /\ Len(ReturnedList) = 3 /\ Len(Separators(trace)) = 2

(* ------------------------------------------------------------------ *)
(* C6                                                                  *)
(* ------------------------------------------------------------------ *)

\* C6 as stated: the margin is tested after every character appended, the
\* first included, so no successful token parse returns a text of MAX_LEN
\* bytes or more.
C6_TextShorterThanMaxLen == TokenReturning => str_len(Top.str) < MAX_LEN

\* C6, amended: the margin is tested after each character appended in the
\* continuation loop, not after the first character. A token parse that has
\* passed the test, and so any that returns, holds either its first character
\* alone or a text of fewer than MAX_LEN bytes; it aborts with "exceeded
\* safety margin" exactly on an appended character that brings the text to
\* MAX_LEN bytes or more.
C6_MarginAfterLoopAppends ==
    (stack # <<>> /\ Top.fn = "Token::parse") =>
        /\ (panic = PanicNone /\ Top.pc \in {"loop", "escaped", "whitespace", "ident"})
              => (Len(Top.str) = 1 \/ str_len(Top.str) < MAX_LEN)
        /\ panic.msg = MsgMargin
              => (Top.pc = "margin" /\ Len(Top.str) >= 2 /\ str_len(Top.str) >= MAX_LEN)
        /\ (Top.pc = "margin" /\ str_len(Top.str) >= MAX_LEN) => Len(Top.str) >= 2

\* a token parse returns a text of two characters that passed the margin test
C6_Witness == TokenReturning /\ Len(Top.str) = 2 /\ str_len(Top.str) < MAX_LEN

(* ------------------------------------------------------------------ *)
(* C7                                                                  *)
(* ------------------------------------------------------------------ *)

\* C7 as stated: no successful list parse returns LIMIT elements or more.
C7_ListShorterThanLimit == ListReturned => Len(ReturnedList) < LIMIT

\* C7, amended: the limit is tested when a separator has been consumed, before
\* the next element is parsed: with LIMIT elements held the parse aborts with
\* "safety margin exceeded". So, for LIMIT >= 1, no successful list parse
\* returns more than LIMIT elements; a list of exactly LIMIT elements that no
\* separator follows is returned.
C7_ListWithinLimit ==
    /\ (stack # <<>> /\ Top.fn = "parse_list") => Len(Top.elems) <= Top.max
    /\ panic.msg = MsgLimit =>
          /\ Top.fn = "parse_list" /\ Top.pc = "sep_ret" /\ ret.some
          /\ Len(Top.elems) = Top.max
    /\ ListReturned => Len(ReturnedList) <= LIMIT

\* a list of exactly LIMIT elements has been returned, LIMIT being 2 or more
C7_Witness == ListReturned /\ LIMIT >= 2 /\ Len(ReturnedList) = LIMIT

(* ------------------------------------------------------------------ *)
(* C8                                                                  *)
(* ------------------------------------------------------------------ *)

\* C8: a token class that keeps the default ESCAPE and the default escaped has
\* no escaping: its parse never aborts with "illegal escape sequence", and it
\* stops at the first character the continuation predicate rejects, whatever
\* that character is.
C8_DefaultMeansNoEscaping ==
    (stack # <<>> /\ Top.fn = "Token::parse" /\ NoEscaping(Top.ty.cls)) =>
        /\ panic.msg # MsgEscape
        /\ \A i \in 1..Len(FrameTrace(Top)) : FrameTrace(Top)[i].site # "escape"

(* ------------------------------------------------------------------ *)
(* C9                                                                  *)
(* ------------------------------------------------------------------ *)

\* the characters the Token parse f has consumed itself: those of its
\* callee Whitespace::parse left out
TokenTrace(f) == SelectSeq(FrameTrace(f), LAMBDA e : e.site # "ws")

LoopsAgain ==
    /\ stack # <<>> /\ stack' # <<>> /\ Tail(stack') = Tail(stack)
    /\ \/ Top.fn = "Whitespace::parse" /\ Top.pc = "loop"
       \/ Top.fn = "Token::parse" /\ Top.pc = "loop" /\ Head(stack').pc # "whitespace"

\* parse_list's while condition holds: the maybe_syntax it called returns Some
SeparatorTaken ==
    /\ Len(stack) >= 2 /\ stack' = Tail(stack)
    /\ Top.fn = "maybe_syntax" /\ stack[2].fn = "parse_list" /\ ret'.some

====
